---------------------------- MODULE Spec2Model ----------------------------
(***************************************************************************)
(* Model of the restaurant-menu image migration script.                    *)
(*                                                                         *)
(* Two variants of the same script exist:                                  *)
(*   variant "A"  src/index.js          (MongoClient, cursor over find({}))*)
(*   variant "B"  src/unnamed/part_000  (mongoose, aggregate with $skip)   *)
(*                                                                         *)
(* A JavaScript string is a sequence of string pieces: a template literal  *)
(* is the concatenation of its literal pieces and of the ToString of its   *)
(* interpolated values.  A byte buffer is a sequence of integers 0..255.    *)
(* The program advances one step per I/O boundary (await).                 *)
(***************************************************************************)
EXTENDS Integers, Sequences, FiniteSets, TLC

VARIABLES
    variant,       \* which of the two scripts runs
    env,           \* process.env: which connection strings are set
    pc,            \* position of the script
    exitCode,      \* -1 while running, else the process's exit status
    conn,          \* database connection: none/connected/failed/closing/closed
    connAttempts,  \* number of connect calls made
    db,            \* the stored collection, in natural order
    s3,            \* the bucket: key -> object
    pending,       \* documents the iteration has still to yield
    doc,           \* the document being processed (as read)
    idx,           \* 1-based position of the next item of doc
    updatedItems,  \* the array built by processDocument
    buffer,        \* bytes fetched for the current item
    itemLog,       \* per item of doc: what I/O its handling issued
    updCount,      \* database updates issued for doc
    count,         \* the driver's running count
    processed,     \* _ids handed to processDocument, in order
    logged,        \* messages written by the last step
    run,           \* number of the current run of the script
    firstRun       \* the collection as the first run left it

vars == <<variant, env, pc, exitCode, conn, connAttempts, db, s3, pending, doc,
          idx, updatedItems, buffer, itemLog, updCount, count, processed,
          logged, run, firstRun>>

ioVars == <<doc, idx, updatedItems, buffer, itemLog, updCount>>

-----------------------------------------------------------------------------
(* Bounds of the model *)

MaxDocs == 2
MaxItems == 2

-----------------------------------------------------------------------------
(* Program constants *)

BUCKET_NAME == "gobbl-restaurant-images-bucket"
REGION == "ap-south-1"
SKIP == 101
CONTENT_TYPE == "image/jpeg"

-----------------------------------------------------------------------------
(* JavaScript values *)

Undefined == [t |-> "undefined", s |-> <<>>]
Null == [t |-> "null", s |-> <<>>]
Str(s) == [t |-> "string", s |-> s]

NoId == [t |-> "undefined", n |-> 0]
Num(n) == [t |-> "number", n |-> n]

\* ToBoolean of a string-or-nullish value: `if (item.image)`
TruthyMut(v) == v.t = "string"
Truthy(v) == v.t = "string" /\ v.s # <<>>

\* ToBoolean of a number-or-undefined value: `!restaurantId`
TruthyNum(v) == v.t = "number" /\ v.n # 0

\* `${restaurantId}/${restaurantId}-${itemId}.jpg`
S3KeyMut(restaurantId, itemId) ==
    <<ToString(restaurantId), "/", ToString(itemId), "-", ToString(itemId), ".jpg">>
S3Key(restaurantId, itemId) ==
    <<ToString(restaurantId), "/", ToString(restaurantId), "-", ToString(itemId), ".jpg">>

\* `https://${BUCKET_NAME}.s3.${REGION}.amazonaws.com/${key}`
S3Url(key) == <<"https://", BUCKET_NAME, ".s3.", REGION, ".amazonaws.com/">> \o key

\* the literal of variant B, cut into the same pieces
PLACEHOLDER_URL ==
    <<"https://", "gobbl-restaurant-images-bucket", ".s3.", "ap-south-1",
      ".amazonaws.com/", "landscape-placeholder-svgrepo-co.jpg">>

\* newUrl of the else branch and of the catch branch of processDocument
FallbackUrlMut(v, restaurantId, itemId) ==
    IF v = "A" THEN PLACEHOLDER_URL ELSE S3Url(S3Key(restaurantId, itemId))
FallbackUrlShared(v, restaurantId, itemId) == PLACEHOLDER_URL
FallbackUrl(v, restaurantId, itemId) ==
    IF v = "A" THEN S3Url(S3Key(restaurantId, itemId)) ELSE PLACEHOLDER_URL

\* { ...item, image: newUrl }
SpreadMut(item, newUrl) == [item EXCEPT !.image = Str(newUrl), !.name = "x"]
Spread(item, newUrl) == [item EXCEPT !.image = Str(newUrl)]

\* Buffer.from(response.data, 'binary')
BufferFrom(data) == [i \in DOMAIN data |-> data[i] % 256]

\* !(!restaurantId || !Array.isArray(doc.items))
WellFormedMut(d) == TruthyNum(d.restaurantId) \/ d.items.t = "array"
WellFormed(d) == TruthyNum(d.restaurantId) /\ d.items.t = "array"

-----------------------------------------------------------------------------
(* Documents of the collection *)

EXTERNAL_URL == <<"http://ex.com/a.png">>

\* bodies an HTTP server outside the bucket may answer with
Bytes == {<<7>>, <<255, 0>>}

NullItem == [t |-> "null", id |-> 0, image |-> Undefined, name |-> ""]
Item(id, image) == [t |-> "object", id |-> id, image |-> image, name |-> "dish"]

Array(elems) == [t |-> "array", elems |-> elems]
NotArray == [t |-> "undefined", elems |-> <<>>]

ItemsAt(i) == {NullItem} \cup {Item(i, img) : img \in {Null, Str(<<>>), Str(EXTERNAL_URL)}}

ItemArrays ==
    UNION {{Array(a) : a \in {f \in [1..n -> UNION {ItemsAt(i) : i \in 1..n}] :
                                  \A i \in 1..n : f[i] \in ItemsAt(i)}} : n \in 0..MaxItems}

\* a shape is a document without its _id: has restaurantId or not, and its items
Shape(hasId, items) == [hasId |-> hasId, items |-> items]

BasicShapes ==
    {Shape(FALSE, Array(<<Item(1, Str(EXTERNAL_URL))>>)),
     Shape(TRUE, Array(<<Item(1, Null)>>))}

Shapes ==
    BasicShapes \cup {Shape(TRUE, NotArray)} \cup {Shape(TRUE, a) : a \in ItemArrays}

Doc(id, shape) ==
    [_id |-> id,
     restaurantId |-> IF shape.hasId THEN Num(41 + id) ELSE NoId,
     items |-> shape.items,
     name |-> "menu"]

\* collections of n documents, at most one of them of a shape that is not basic
ShapeSeqs(n) ==
    IF n = 0 THEN {<<>>}
    ELSE {[b EXCEPT ![k] = f] : b \in [1..n -> BasicShapes], k \in 1..n, f \in Shapes}

Filler(n) == [i \in 1..n |-> Doc(i, Shape(TRUE, Array(<<Item(1, Str(EXTERNAL_URL))>>)))]

Collection(prefix, shapes) ==
    Filler(prefix) \o [i \in 1..Len(shapes) |-> Doc(prefix + i, shapes[i])]

NoDoc == Doc(0, Shape(FALSE, NotArray))

-----------------------------------------------------------------------------
(* The environment: HTTP and the document store *)

IsBucketUrl(url) ==
    /\ Len(url) > 5
    /\ SubSeq(url, 1, 5) = <<"https://", BUCKET_NAME, ".s3.", REGION, ".amazonaws.com/">>

KeyOfUrl(url) == SubSeq(url, 6, Len(url))

\* bodies a successful GET of url may carry
HttpBodies(url) ==
    IF IsBucketUrl(url) /\ KeyOfUrl(url) \in DOMAIN s3
    THEN {s3[KeyOfUrl(url)].Body}
    ELSE Bytes

\* s3.putObject({Bucket, Key, Body, ContentType})
PutObject(bucket, key, body, contentType) ==
    [k \in DOMAIN bucket \cup {key} |->
        IF k = key THEN [Body |-> body, ContentType |-> contentType] ELSE bucket[k]]

\* updateOne / findOneAndUpdate({ _id }, { $set: { items } })
SetItems(coll, id, items) ==
    [i \in DOMAIN coll |->
        IF coll[i]._id = id THEN [coll[i] EXCEPT !.items = Array(items)] ELSE coll[i]]

\* $project: { _id: 1, restaurantId: 1, items: 1 }
Project(d) == [_id |-> d._id, restaurantId |-> d.restaurantId, items |-> d.items]

\* aggregate([{ $skip: SKIP }, { $project }]) as a sequence the driver iterates
SkipCount(coll) == IF Len(coll) > SKIP THEN SKIP ELSE Len(coll)
Aggregate(coll) ==
    [i \in 1..(Len(coll) - SkipCount(coll)) |-> Project(coll[i + SkipCount(coll)])]

\* find({}) : every document, in natural order
Find(coll) == coll

-----------------------------------------------------------------------------
(* Initial states: the script is about to start *)

Init ==
    /\ variant \in {"A", "B"}
    /\ env \in {e \in [MONGO_URI : BOOLEAN, MONGODB_URL : BOOLEAN] :
                    variant = "A" => ~e.MONGODB_URL}
    /\ pc = "boot"
    /\ exitCode = -1
    /\ conn = "none"
    /\ connAttempts = 0
    /\ \E prefix \in (IF variant = "A" THEN {0} ELSE {0, SKIP}),
          n \in 0..MaxDocs :
          \E shapes \in ShapeSeqs(n) : db = Collection(prefix, shapes)
    /\ s3 = <<>>
    /\ pending = <<>>
    /\ doc = NoDoc
    /\ idx = 0
    /\ updatedItems = <<>>
    /\ buffer = <<>>
    /\ itemLog = <<>>
    /\ updCount = 0
    /\ count = 0
    /\ processed = <<>>
    /\ logged = <<>>
    /\ run = 1
    /\ firstRun = <<>>

-----------------------------------------------------------------------------
(* Start-up *)

\* count++ and the "Processed N documents so far..." line of the driver's loop
Progress(c) == IF (c + 1) % 100 = 0 THEN <<"Processed documents so far">> ELSE <<>>

\* if (!mongoUri) { console.error(...); process.exit(1); }
ConfigExit ==
    /\ pc = "boot"
    /\ ~env.MONGO_URI
    /\ logged' = <<"MONGO_URI is not set in the environment.">>
    /\ exitCode' = 1
    /\ pc' = "exited"
    /\ UNCHANGED <<variant, env, conn, connAttempts, db, s3, pending, ioVars,
                   count, processed, run, firstRun>>

\* variant A: new MongoClient(mongoUri), client.connect() is issued
StartA ==
    /\ pc = "boot"
    /\ variant = "A"
    /\ env.MONGO_URI
    /\ connAttempts' = connAttempts + 1
    /\ pc' = "connect"
    /\ logged' = <<>>
    /\ UNCHANGED <<variant, env, exitCode, conn, db, s3, pending, ioVars,
                   count, processed, run, firstRun>>

\* await client.connect() returns; the cursor of find({}) is opened
ConnectOk ==
    /\ pc = "connect"
    /\ conn' = "connected"
    /\ pending' = Find(db)
    /\ count' = 0
    /\ logged' = <<"Connected to MongoDB">>
    /\ pc' = "hasNext"
    /\ UNCHANGED <<variant, env, exitCode, connAttempts, db, s3, ioVars,
                   processed, run, firstRun>>

\* await client.connect() throws: the outer catch logs, finally follows
ConnectFail ==
    /\ pc = "connect"
    /\ conn' = "failed"
    /\ logged' = <<"Error updating restaurant menus images">>
    /\ pc' = "finally"
    /\ UNCHANGED <<variant, env, exitCode, connAttempts, db, s3, pending, ioVars,
                   count, processed, run, firstRun>>

\* variant B: mongoose.connect(process.env.MONGODB_URL) is issued and not awaited,
\* the aggregate is built and count starts at 101.  conn is the outcome the
\* operations buffered on the connection will see.
StartB ==
    /\ pc = "boot"
    /\ variant = "B"
    /\ env.MONGO_URI
    /\ connAttempts' = connAttempts + 1
    /\ conn' \in (IF env.MONGODB_URL THEN {"connected", "failed"} ELSE {"failed"})
    /\ count' = 101
    /\ logged' = <<"connnted", "fetched from db">>
    /\ pc' = "iterate"
    /\ UNCHANGED <<variant, env, exitCode, db, s3, pending, ioVars,
                   processed, run, firstRun>>

\* for (const doc of collection): the aggregate yields its documents
IterateOk ==
    /\ pc = "iterate"
    /\ conn = "connected"
    /\ pending' = Aggregate(db)
    /\ logged' = <<>>
    /\ pc' = "hasNext"
    /\ UNCHANGED <<variant, env, exitCode, conn, connAttempts, db, s3, ioVars,
                   count, processed, run, firstRun>>

\* the aggregate cannot be read: the outer catch logs, finally follows
IterateFail ==
    /\ pc = "iterate"
    /\ conn = "failed"
    /\ logged' = <<"Error updating restaurant menus images">>
    /\ pc' = "finally"
    /\ UNCHANGED <<variant, env, exitCode, conn, connAttempts, db, s3, pending,
                   ioVars, count, processed, run, firstRun>>

-----------------------------------------------------------------------------
(* The driver's loop *)

\* cursor.hasNext() is true and cursor.next() yields / the for-of yields:
\* processDocument(doc) is called
NextDoc ==
    /\ pc = "hasNext"
    /\ pending # <<>>
    /\ doc' = Head(pending)
    /\ pending' = Tail(pending)
    /\ processed' = Append(processed, Head(pending)._id)
    /\ idx' = 1
    /\ updatedItems' = <<>>
    /\ buffer' = <<>>
    /\ itemLog' = <<>>
    /\ updCount' = 0
    /\ logged' = <<>>
    /\ pc' = "process"
    /\ UNCHANGED <<variant, env, exitCode, conn, connAttempts, db, s3, count,
                   run, firstRun>>

\* the iteration is exhausted
Finished ==
    /\ pc = "hasNext"
    /\ pending = <<>>
    /\ logged' = <<"Finished processing all documents.">>
    /\ pc' = "finally"
    /\ UNCHANGED <<variant, env, exitCode, conn, connAttempts, db, s3, pending,
                   ioVars, count, processed, run, firstRun>>

\* variant A: cursor.hasNext() or cursor.next() throws: the outer catch logs
CursorError ==
    /\ pc = "hasNext"
    /\ variant = "A"
    /\ logged' = <<"Error updating restaurant menus images">>
    /\ pc' = "finally"
    /\ UNCHANGED <<variant, env, exitCode, conn, connAttempts, db, s3, pending,
                   ioVars, count, processed, run, firstRun>>

-----------------------------------------------------------------------------
(* processDocument *)

\* missing restaurantId or items not an array: warn and return
SkipDocument ==
    /\ pc = "process"
    /\ ~WellFormed(doc)
    /\ logged' = <<"Skipping document">> \o Progress(count)
    /\ count' = count + 1
    /\ pc' = "hasNext"
    /\ UNCHANGED <<variant, env, exitCode, conn, connAttempts, db, s3, pending,
                   ioVars, processed, run, firstRun>>

\* updatedItems = [] and the for-of over doc.items starts
BeginItems ==
    /\ pc = "process"
    /\ WellFormed(doc)
    /\ logged' = <<>>
    /\ pc' = "item"
    /\ UNCHANGED <<variant, env, exitCode, conn, connAttempts, db, s3, pending,
                   ioVars, count, processed, run, firstRun>>

ItemRec(fetch, put, outcome, data) ==
    [fetch |-> fetch, put |-> put, outcome |-> outcome, data |-> data]

\* the item is null: item.image throws inside the try, item.id throws inside the
\* catch, processDocument throws and the driver's catch logs
ItemThrows ==
    /\ pc = "item"
    /\ idx <= Len(doc.items.elems)
    /\ doc.items.elems[idx].t = "null"
    /\ logged' = <<"Error processing document">> \o Progress(count)
    /\ count' = count + 1
    /\ pc' = "hasNext"
    /\ UNCHANGED <<variant, env, exitCode, conn, connAttempts, db, s3, pending,
                   ioVars, processed, run, firstRun>>

\* item.image is falsy: the else branch sets the fallback URL, no I/O
ItemNoImage ==
    /\ pc = "item"
    /\ idx <= Len(doc.items.elems)
    /\ LET item == doc.items.elems[idx] IN
        /\ item.t = "object"
        /\ ~Truthy(item.image)
        /\ updatedItems' = Append(updatedItems,
               Spread(item, FallbackUrl(variant, doc.restaurantId.n, item.id)))
    /\ itemLog' = Append(itemLog, ItemRec(FALSE, FALSE, "noimage", <<>>))
    /\ idx' = idx + 1
    /\ logged' = <<"No original image">>
    /\ UNCHANGED <<variant, env, pc, exitCode, conn, connAttempts, db, s3, pending,
                   doc, buffer, updCount, count, processed, run, firstRun>>

\* item.image is truthy: uploadImageToS3 is called and axios.get is issued
ItemFetch ==
    /\ pc = "item"
    /\ idx <= Len(doc.items.elems)
    /\ doc.items.elems[idx].t = "object"
    /\ Truthy(doc.items.elems[idx].image)
    /\ itemLog' = Append(itemLog, ItemRec(TRUE, FALSE, "pending", <<>>))
    /\ logged' = <<>>
    /\ pc' = "fetch"
    /\ UNCHANGED <<variant, env, exitCode, conn, connAttempts, db, s3, pending,
                   doc, idx, updatedItems, buffer, updCount, count, processed,
                   run, firstRun>>

\* the catch of uploadImageToS3 logs and rethrows, the catch of processDocument
\* logs and sets the fallback URL
Recover ==
    /\ updatedItems' = Append(updatedItems,
           Spread(doc.items.elems[idx],
                  FallbackUrl(variant, doc.restaurantId.n, doc.items.elems[idx].id)))
    /\ itemLog' = [itemLog EXCEPT ![idx].outcome = "failed"]
    /\ idx' = idx + 1
    /\ logged' = <<"Error uploading image", "Failed to update image">>
    /\ pc' = "item"

\* axios.get throws
FetchFail ==
    /\ pc = "fetch"
    /\ Recover
    /\ UNCHANGED <<variant, env, exitCode, conn, connAttempts, db, s3, pending,
                   doc, buffer, updCount, count, processed, run, firstRun>>

\* axios.get returns: the buffer and the key are built, s3.putObject is issued
FetchOk ==
    /\ pc = "fetch"
    /\ \E data \in HttpBodies(doc.items.elems[idx].image.s) :
        /\ buffer' = BufferFrom(data)
        /\ itemLog' = [itemLog EXCEPT ![idx].put = TRUE, ![idx].data = data]
    /\ logged' = <<>>
    /\ pc' = "put"
    /\ UNCHANGED <<variant, env, exitCode, conn, connAttempts, db, s3, pending,
                   doc, idx, updatedItems, updCount, count, processed, run,
                   firstRun>>

\* s3.putObject throws
PutFail ==
    /\ pc = "put"
    /\ Recover
    /\ UNCHANGED <<variant, env, exitCode, conn, connAttempts, db, s3, pending,
                   doc, buffer, updCount, count, processed, run, firstRun>>

\* s3.putObject returns: uploadImageToS3 returns the URL of the object
PutOk ==
    /\ pc = "put"
    /\ LET item == doc.items.elems[idx]
           key == S3Key(doc.restaurantId.n, item.id)
       IN /\ s3' = PutObject(s3, key, buffer, CONTENT_TYPE)
          /\ updatedItems' = Append(updatedItems, Spread(item, S3Url(key)))
    /\ itemLog' = [itemLog EXCEPT ![idx].outcome = "ok"]
    /\ idx' = idx + 1
    /\ logged' = <<>>
    /\ pc' = "item"
    /\ UNCHANGED <<variant, env, exitCode, conn, connAttempts, db, pending, doc,
                   buffer, updCount, count, processed, run, firstRun>>

IssueUpdateMut ==
    /\ pc = "item"
    /\ idx >= Len(doc.items.elems)
    /\ updCount' = updCount + 1
    /\ logged' = <<>>
    /\ pc' = "update"
    /\ UNCHANGED <<variant, env, exitCode, conn, connAttempts, db, s3, pending,
                   doc, idx, updatedItems, buffer, itemLog, count, processed,
                   run, firstRun>>

\* every item is handled: updateOne / findOneAndUpdate is issued
IssueUpdate ==
    /\ pc = "item"
    /\ idx > Len(doc.items.elems)
    /\ updCount' = updCount + 1
    /\ logged' = <<>>
    /\ pc' = "update"
    /\ UNCHANGED <<variant, env, exitCode, conn, connAttempts, db, s3, pending,
                   doc, idx, updatedItems, buffer, itemLog, count, processed,
                   run, firstRun>>

\* the update returns: processDocument logs and returns
UpdateOk ==
    /\ pc = "update"
    /\ db' = SetItems(db, doc._id, updatedItems)
    /\ logged' = <<"Updated document">> \o Progress(count)
    /\ count' = count + 1
    /\ pc' = "hasNext"
    /\ UNCHANGED <<variant, env, exitCode, conn, connAttempts, s3, pending,
                   ioVars, processed, run, firstRun>>

UpdateFailMut ==
    /\ pc = "update"
    /\ logged' = <<"Error updating restaurant menus images">>
    /\ pc' = "finally"
    /\ UNCHANGED <<variant, env, exitCode, conn, connAttempts, db, s3, pending,
                   ioVars, count, processed, run, firstRun>>

\* the update throws: processDocument throws and the driver's catch logs
UpdateFail ==
    /\ pc = "update"
    /\ logged' = <<"Error processing document">> \o Progress(count)
    /\ count' = count + 1
    /\ pc' = "hasNext"
    /\ UNCHANGED <<variant, env, exitCode, conn, connAttempts, db, s3, pending,
                   ioVars, processed, run, firstRun>>

-----------------------------------------------------------------------------
(* finally *)

\* variant A: client.close() is issued and awaited
CloseA ==
    /\ pc = "finally"
    /\ variant = "A"
    /\ conn' = "closing"
    /\ logged' = <<>>
    /\ pc' = "closing"
    /\ UNCHANGED <<variant, env, exitCode, connAttempts, db, s3, pending, ioVars,
                   count, processed, run, firstRun>>

\* variant A: client.close() returns, the function returns and the process ends
ClosedA ==
    /\ pc = "closing"
    /\ conn' = "closed"
    /\ logged' = <<"Disconnected from MongoDB.">>
    /\ exitCode' = 0
    /\ pc' = "exited"
    /\ UNCHANGED <<variant, env, connAttempts, db, s3, pending, ioVars, count,
                   processed, run, firstRun>>

\* variant B: mongoose.connection.close() is issued and not awaited, then
\* process.exit(0)
FinallyB ==
    /\ pc = "finally"
    /\ variant = "B"
    /\ conn' = "closing"
    /\ logged' = <<>>
    /\ exitCode' = 0
    /\ pc' = "exited"
    /\ UNCHANGED <<variant, env, connAttempts, db, s3, pending, ioVars, count,
                   processed, run, firstRun>>

-----------------------------------------------------------------------------
(* Running the script again on the collection the previous run left *)

MaxRuns == 2

Rerun ==
    /\ pc = "exited"
    /\ exitCode = 0
    /\ run < MaxRuns
    /\ run' = run + 1
    /\ firstRun' = db
    /\ pc' = "boot"
    /\ exitCode' = -1
    /\ conn' = "none"
    /\ connAttempts' = 0
    /\ pending' = <<>>
    /\ doc' = NoDoc
    /\ idx' = 0
    /\ updatedItems' = <<>>
    /\ buffer' = <<>>
    /\ itemLog' = <<>>
    /\ updCount' = 0
    /\ count' = 0
    /\ processed' = <<>>
    /\ logged' = <<>>
    /\ UNCHANGED <<variant, env, db, s3>>

-----------------------------------------------------------------------------

Next ==
    \/ ConfigExit \/ StartA \/ ConnectOk \/ ConnectFail
    \/ StartB \/ IterateOk \/ IterateFail
    \/ NextDoc \/ Finished \/ CursorError
    \/ SkipDocument \/ BeginItems
    \/ ItemThrows \/ ItemNoImage \/ ItemFetch
    \/ FetchFail \/ FetchOk \/ PutFail \/ PutOk
    \/ IssueUpdate \/ UpdateOk \/ UpdateFail
    \/ CloseA \/ ClosedA \/ FinallyB

Spec == Init /\ [][Next]_vars

\* two runs in a row over a collection of at most one document past the skip
InitRerun == Init /\ Len(db) \in {0, 1, SKIP, SKIP + 1}

NextRerun == Next \/ Rerun

SpecRerun == InitRerun /\ [][NextRerun]_vars

-----------------------------------------------------------------------------
(* What the claims expect, written out independently of the operators above *)

ExpectedKey(rid, id) ==
    <<ToString(rid), "/", ToString(rid), "-", ToString(id), ".jpg">>

ExpectedUrl(rid, id) ==
    <<"https://", "gobbl-restaurant-images-bucket", ".s3.", "ap-south-1",
      ".amazonaws.com/">> \o ExpectedKey(rid, id)

ExpectedPlaceholder ==
    <<"https://", "gobbl-restaurant-images-bucket", ".s3.", "ap-south-1",
      ".amazonaws.com/", "landscape-placeholder-svgrepo-co.jpg">>

ExpectedFallback(rid, id) ==
    IF variant = "A" THEN ExpectedUrl(rid, id) ELSE ExpectedPlaceholder

Items == doc.items.elems
Rid == doc.restaurantId.n

EmptyImage(item) == item.image.t # "string" \/ item.image.s = <<>>

Malformed(d) ==
    \/ d.restaurantId.t # "number"
    \/ d.restaurantId.n = 0
    \/ d.items.t # "array"

\* the stored documents whose _id is that of doc
Stored == {k \in DOMAIN db : db[k]._id = doc._id}

InDocument == pc \in {"process", "item", "fetch", "put", "update"}

-----------------------------------------------------------------------------
\* C1: an item with a non-empty image whose fetch and storage write both
\* succeeded gets the image https://{bucket}.s3.{region}.amazonaws.com/
\* {restaurantId}/{restaurantId}-{itemId}.jpg, and the bucket holds exactly the
\* fetched bytes under {restaurantId}/{restaurantId}-{itemId}.jpg with content
\* type image/jpeg (both variants).
C1_RelocationSucceeded ==
    \A i \in DOMAIN itemLog :
        itemLog[i].outcome = "ok" =>
            /\ ~EmptyImage(Items[i])
            /\ i \in DOMAIN updatedItems
            /\ updatedItems[i].image = Str(ExpectedUrl(Rid, Items[i].id))
            /\ ExpectedKey(Rid, Items[i].id) \in DOMAIN s3
            /\ s3[ExpectedKey(Rid, Items[i].id)] =
                   [Body |-> itemLog[i].data, ContentType |-> "image/jpeg"]

C1_Witness ==
    /\ variant = "A"
    /\ Len(itemLog) = 2
    /\ itemLog[2].outcome = "ok"
    /\ itemLog[2].data = <<255, 0>>

C4_SkippedDocument ==
    (processed # <<>> /\ Malformed(doc) /\ pc # "process") =>
        /\ pc \in {"hasNext", "finally", "closing", "exited"}
        /\ pc = "hasNext" => logged = <<"Skipping document">>
        /\ itemLog = <<>>
        /\ updatedItems = <<>>
        /\ updCount = 0
        /\ \A k \in Stored :
               /\ db[k].items = doc.items
               /\ db[k].restaurantId = doc.restaurantId

C4_Witness ==
    /\ variant = "A"
    /\ pc = "hasNext"
    /\ Len(processed) = 1
    /\ doc.restaurantId.t = "undefined"
    /\ doc.items.t = "array"
    /\ pending # <<>>

\* C5: after the update of a well-formed document the stored items have the
\* length and order of the original and differ from it in image only, and no
\* other field of any stored document has changed.
C5_FieldsPreserved ==
    /\ \A k \in DOMAIN db : db[k]._id = k /\ db[k].name = "menu"
    /\ (pc = "hasNext" /\ logged # <<>> /\ logged[1] = "Updated document") =>
           \A k \in Stored :
               /\ db[k].restaurantId = doc.restaurantId
               /\ db[k].items.t = "array"
               /\ Len(db[k].items.elems) = Len(Items)
               /\ \A i \in DOMAIN Items :
                      /\ db[k].items.elems[i].t = Items[i].t
                      /\ db[k].items.elems[i].id = Items[i].id
                      /\ db[k].items.elems[i].name = Items[i].name
                      /\ db[k].items.elems[i].image.t = "string"

C5_Witness ==
    /\ variant = "A"
    /\ pc = "hasNext"
    /\ logged = <<"Updated document">>
    /\ Len(Items) = 2
    /\ Items[1].image = Null
    /\ \E k \in Stored : db[k].items.elems[2].image # Items[2].image

-----------------------------------------------------------------------------
(* Idempotence over two runs (SpecRerun) *)

PointsAtBucket(item) ==
    /\ item.t = "object"
    /\ item.image.t = "string"
    /\ Len(item.image.s) > 5
    /\ SubSeq(item.image.s, 1, 5) =
           <<"https://", "gobbl-restaurant-images-bucket", ".s3.", "ap-south-1",
             ".amazonaws.com/">>

\* the documents the previous run left migrated
Migrated ==
    {k \in DOMAIN firstRun :
        /\ firstRun[k].restaurantId.t = "number"
        /\ firstRun[k].items.t = "array"
        /\ firstRun[k].items.elems # <<>>
        /\ \A i \in DOMAIN firstRun[k].items.elems :
               PointsAtBucket(firstRun[k].items.elems[i])}

RunEnded == pc = "exited" /\ exitCode = 0 /\ run > 1

-----------------------------------------------------------------------------
\* C7: the driver hands the documents of its iteration (variant A: all of the
\* collection; variant B: those after the first 101) to processDocument once
\* each and in order, and an error thrown while processing one document is
\* logged and the loop goes on to the next document.
ExpectedSkip == IF variant = "A" THEN 0 ELSE 101

ExpectedIds ==
    [i \in 1..(IF Len(db) > ExpectedSkip THEN Len(db) - ExpectedSkip ELSE 0) |->
        ExpectedSkip + i]

C7_EveryDocumentOnce ==
    /\ Len(processed) <= Len(ExpectedIds)
    /\ processed = SubSeq(ExpectedIds, 1, Len(processed))
    /\ logged = <<"Finished processing all documents.">> => processed = ExpectedIds
    /\ (logged # <<>> /\ logged[1] = "Error processing document") => pc = "hasNext"
    /\ InDocument => (processed # <<>> /\ processed[Len(processed)] = doc._id)
    /\ pc \in {"hasNext", "finally"} =>
           count = (IF variant = "A" THEN 0 ELSE 101) + Len(processed)
    /\ (variant = "B" /\ pc = "finally" /\ conn = "connected") => pending = <<>>
    /\ (pc = "hasNext" /\ pending # <<>>) =>
           Head(pending)._id = ExpectedIds[Len(processed) + 1]

C7_Witness ==
    /\ variant = "B"
    /\ processed = <<102, 103>>
    /\ pc = "update"
    /\ db[102].restaurantId.t = "number"
    /\ db[102].items = Array(<<Item(1, Null)>>)

-----------------------------------------------------------------------------
\* C8: when the connection string the variant connects with is absent, the
\* program logs an error and exits with a non-zero status before any connect
\* attempt, document read, fetch, storage write or update.
UsedConnectionString == IF variant = "A" THEN env.MONGO_URI ELSE env.MONGODB_URL

C8_FailFast ==
    (~UsedConnectionString /\ pc # "boot") =>
        /\ pc = "exited"
        /\ exitCode = 1
        /\ connAttempts = 0
        /\ processed = <<>>
        /\ s3 = <<>>

-----------------------------------------------------------------------------
\* C9: in a run that passed the configuration check the database connection is
\* closed, the close having completed, before the process ends.
C9_ClosedBeforeExit ==
    (pc = "exited" /\ exitCode = 0) => conn = "closed"

-----------------------------------------------------------------------------
\* C10: for a well-formed document one update is issued, only after every item
\* was handled, items being handled one at a time; it sets items to the
\* complete new array, and until it has succeeded (also when processing
\* aborts) the stored document is as it was read.
C10_SingleUpdate ==
    /\ updCount <= 1
    /\ Len(updatedItems) <= Len(itemLog)
    /\ Len(itemLog) <= Len(updatedItems) + 1
    /\ \A i \in DOMAIN itemLog :
           itemLog[i].outcome = "pending" <=> (i > Len(updatedItems))
    /\ Len(itemLog) > Len(updatedItems) <=> pc \in {"fetch", "put"}
    /\ updCount = 1 =>
           /\ Len(updatedItems) = Len(Items)
           /\ Len(itemLog) = Len(Items)
    /\ pc = "update" => updCount = 1
    /\ (pc = "hasNext" /\ logged # <<>> /\ logged[1] = "Updated document") =>
           /\ updCount = 1
           /\ \A k \in Stored : db[k].items = Array(updatedItems)
    /\ (InDocument \/ (processed # <<>> /\ updCount = 0)) =>
           \A k \in Stored : db[k].items = doc.items
    /\ \A k \in Stored :
           \/ db[k].items = doc.items
           \/ db[k].items = Array(updatedItems) /\ Len(updatedItems) = Len(Items)

C10_Witness ==
    /\ variant = "A"
    /\ pc = "hasNext"
    /\ logged = <<"Error processing document">>
    /\ updCount = 0
    /\ Len(updatedItems) = 1
    /\ Len(Items) = 2
    /\ \A k \in Stored : db[k].items = doc.items

=============================================================================
